---- MODULE Spec2Model ----
(***************************************************************************)
(* A model of playwith (zhxie/playwith): the pairing sequence of           *)
(* Controller::pair / Controller::close (src/src/lib.rs) and the Output    *)
(* report decoder (src/src/protocol/mod.rs).                               *)
(*                                                                         *)
(* Spec      : one Controller, its adapter and the resources it acquires.  *)
(*             Every await of pair() is one step; a step may fail (the     *)
(*             capability layer returns an error) and the pending call may *)
(*             be cancelled at any await.                                  *)
(* SpecCodec : the decoder applied to byte frames drawn from bounded sets. *)
(***************************************************************************)
EXTENDS Integers, Sequences, FiniteSets

\* ------------------------------------------------------------------ bounds
MaxPairs == 2        \* pair() calls made on the one Controller
MaxDevices == 2      \* devices the adapter already knows
MaxRemotes == 2      \* distinct remote addresses that may connect
MaxPayload == 2      \* payload bytes after the 12-byte header of a frame

\* ------------------------------------------------------- program constants
NINTENDO_SWITCH_NAME == "Nintendo Switch"
GAMEPAD_JOYSITCK_COD == 9480     \* 0x002508
CTR_PSM == 17
ITR_PSM == 19
DirectionInput == 161            \* 0xA1
DirectionOutput == 162           \* 0xA2
TypeSubcommand == 1              \* 0x01
TypeRumble == 16                 \* 0x10
TypeRequestIrNfcMcu == 17        \* 0x11
MinOutputLen == 12

\* ------------------------------------------------------------ value spaces
OtherClass == GAMEPAD_JOYSITCK_COD + 1           \* any class of device that is not the gamepad one
Classes == {GAMEPAD_JOYSITCK_COD, OtherClass}
DeviceNames == {NINTENDO_SWITCH_NAME, "Other", "None"}   \* "None": name() is None
RemoteAddrs == 1..MaxRemotes
SocketIds == 1..(2 * MaxPairs)
ProfileIds == 1..MaxPairs
ControllerTypeName == "Pro Controller"

VARIABLES
    \* the caller's view
    life,            \* "alive" | "dropped": the Controller value
    pc,              \* where the pending pair() call is suspended, "idle" if none
    result,          \* how the last pair() call ended, "none" while it runs
    pairs,           \* pair() calls started so far
    lastOp,          \* the last operation invoked on the Controller
    \* the adapter (bluetooth::Adapter, the radio's global configuration)
    powered, pairable, discoverable, alias, class,
    devNames,        \* the devices known at construction: index -> name
    present,         \* the indices of the devices still known to the adapter
    \* Controller fields (0 is None)
    handle, ctr_seq_packet, itr_seq_packet,
    \* locals of pair()
    ctr_listener, itr_listener,   \* TRUE while the listener is bound
    ctr_local,                    \* the accepted Control socket before it is stored
    dev_iter,                     \* the device addresses still to visit
    ctr_addr, itr_addr,           \* remote addresses of this call's accepts (0: none)
    class_read,                   \* the class this call's last class() returned (0: none)
    \* resources of the Bluetooth stack
    registered,      \* profile ids currently registered
    released,        \* profile id -> times its handle was released
    open,            \* socket ids currently open
    shutdowns,       \* socket id -> times shutdown(Both) was called on it
    nextProfile, nextSock,
    closeLog,        \* what the last close() did, in order
    \* the decoder
    frame,           \* the bytes handed to Output::try_from
    built,           \* the fields the frame was built from, when it was built
    decoded,         \* what Output::try_from did with the frame
    \* several Controllers side by side (SpecSessions)
    sess_adapter,    \* session -> the adapter name its Controller was created with
    sess_pc,         \* session -> where its pair() stands
    radio            \* adapter name -> the settings of that radio

ctlVars == <<life, pairs, lastOp>>
adapterVars == <<powered, pairable, discoverable, alias, class>>
deviceVars == <<devNames, present>>
selfVars == <<handle, ctr_seq_packet, itr_seq_packet>>
addrVars == <<ctr_addr, itr_addr, class_read>>
stackVars == <<registered, released, shutdowns, nextProfile, nextSock>>
codecVars == <<frame, built, decoded>>
sessVars == <<sess_adapter, sess_pc, radio>>
idleVars == <<codecVars, sessVars>>
vars == <<life, pc, result, pairs, lastOp, powered, pairable, discoverable, alias,
          class, devNames, present, handle, ctr_seq_packet, itr_seq_packet,
          ctr_listener, itr_listener, ctr_local, dev_iter, ctr_addr, itr_addr,
          class_read, registered, released, open, shutdowns, nextProfile, nextSock, closeLog,
          frame, built, decoded, sess_adapter, sess_pc, radio>>

\* --------------------------------------------------------------- sequences
RECURSIVE SeqOfSet(_)
SeqOfSet(S) ==
    IF S = {} THEN <<>>
    ELSE LET m == CHOOSE x \in S : \A y \in S : x <= y
         IN <<m>> \o SeqOfSet(S \ {m})

NameLists == UNION {[1..n -> DeviceNames] : n \in 0..MaxDevices}

\* The PSMs a listener of this call is bound to.
BoundPsms ==
    (IF ctr_listener THEN {CTR_PSM} ELSE {}) \cup (IF itr_listener THEN {ITR_PSM} ELSE {})

\* -------------------------------------------------------------------- Init
\* Controller::new: no handle, no sockets.
ControllerNew ==
    /\ handle = 0
    /\ ctr_seq_packet = 0
    /\ itr_seq_packet = 0

PairingInit ==
    /\ life = "alive" /\ pc = "idle" /\ result = "none" /\ pairs = 0 /\ lastOp = "new"
    /\ powered = FALSE /\ pairable = FALSE /\ discoverable = FALSE
    /\ alias = "host" /\ class = OtherClass
    /\ ControllerNew
    /\ ctr_listener = FALSE /\ itr_listener = FALSE /\ ctr_local = 0
    /\ dev_iter = <<>> /\ ctr_addr = 0 /\ itr_addr = 0 /\ class_read = 0
    /\ registered = {} /\ released = [p \in ProfileIds |-> 0]
    /\ open = {} /\ shutdowns = [s \in SocketIds |-> 0]
    /\ nextProfile = 0 /\ nextSock = 0
    /\ closeLog = <<>>

NotBuilt ==
    [some |-> FALSE, timer |-> 0, left_rumble |-> 0, right_rumble |-> 0,
     subcommand |-> 0, data |-> <<>>]
NotDecoded == [kind |-> "none", msg |-> "", t |-> "", timer |-> 0]

CodecIdle ==
    /\ frame = <<>>
    /\ built = NotBuilt
    /\ decoded = NotDecoded

\* Several Controllers: the sessions and the radios they may name.
Sessions == {1, 2}
AdapterNames == {"hci0", "hci1"}
RadioAsFound ==
    [powered |-> FALSE, pairable |-> FALSE, discoverable |-> FALSE, alias |-> "host",
     class |-> OtherClass, writers |-> {}]

\* No Controller of SpecSessions exists yet.
SessionsIdle ==
    /\ sess_adapter = [s \in Sessions |-> "none"]
    /\ sess_pc = [s \in Sessions |-> "new"]
    /\ radio = [a \in AdapterNames |-> RadioAsFound]

Init ==
    /\ PairingInit
    /\ devNames \in NameLists
    /\ present = DOMAIN devNames
    /\ CodecIdle
    /\ SessionsIdle

\* ------------------------------------------------------------ pair(): exits
\* Scope exit of pair(): its locals are dropped. A dropped listener is unbound and
\* an accepted socket that was not yet moved into the Controller is closed.
DropLocals ==
    /\ ctr_listener' = FALSE
    /\ itr_listener' = FALSE
    /\ open' = open \ {ctr_local}
    /\ ctr_local' = 0
    /\ dev_iter' = <<>>

\* pair() ends with outcome res; nothing but the locals changes.
Return(res) ==
    /\ DropLocals
    /\ pc' = "idle"
    /\ result' = res
    /\ UNCHANGED <<ctlVars, closeLog, idleVars>>

\* The `?` of a step whose capability call failed: return the error at once.
FailRetries(kind) ==
    /\ pc' = pc
    /\ result' = kind
    /\ UNCHANGED <<ctlVars, closeLog, idleVars, ctr_listener, itr_listener, ctr_local,
                   dev_iter, open, adapterVars, deviceVars, selfVars, addrVars,
                   stackVars>>
Fail(kind) ==
    /\ Return(kind)
    /\ UNCHANGED <<adapterVars, deviceVars, selfVars, addrVars, stackVars>>

\* The step completed; pair() goes on to its next await.
Advance(next) ==
    /\ pc' = next
    /\ UNCHANGED <<result, ctlVars, closeLog, idleVars>>

keepLocals == <<ctr_listener, itr_listener, ctr_local, dev_iter, open>>

\* The pending pair() future is dropped at an await (cancellation).
Cancel ==
    /\ pc # "idle"
    /\ Fail("cancelled")

\* ------------------------------------------------- pair(): stale pairings
PairStart ==
    /\ life = "alive"
    /\ pc = "idle"
    /\ pairs < MaxPairs
    /\ pairs' = pairs + 1
    /\ lastOp' = "pair"
    /\ pc' = "uuids"
    /\ result' = "none"
    /\ ctr_addr' = 0
    /\ itr_addr' = 0
    /\ class_read' = 0
    /\ UNCHANGED <<life, adapterVars, deviceVars, selfVars, keepLocals, stackVars,
                   closeLog, idleVars>>

\* self.adapter.uuids().await? (more than 3 records only warns)
PairUuids ==
    /\ pc = "uuids"
    /\ \/ /\ Advance("device_addresses")
          /\ UNCHANGED <<adapterVars, deviceVars, selfVars, addrVars, keepLocals, stackVars>>
       \/ Fail("err_bluetooth")

NextAfterDevices(iter) == IF iter = <<>> THEN "address" ELSE "device_name"

\* self.adapter.device_addresses().await?
PairDeviceAddresses ==
    /\ pc = "device_addresses"
    /\ \/ /\ dev_iter' = SeqOfSet(present)
          /\ Advance(NextAfterDevices(SeqOfSet(present)))
          /\ UNCHANGED <<adapterVars, deviceVars, selfVars, addrVars, ctr_listener,
                         itr_listener, ctr_local, open, stackVars>>
       \/ Fail("err_bluetooth")

\* name == NINTENDO_SWITCH_NAME, for a device whose name() is Some(name)
IsSwitchAnyNamed(name) == name # "None"
IsSwitch(name) == name # "None" /\ name = NINTENDO_SWITCH_NAME

\* self.adapter.device(device_addr)?.name().await? and the comparison of the name
PairDeviceName ==
    /\ pc = "device_name"
    /\ dev_iter # <<>>
    /\ \/ /\ IsSwitch(devNames[Head(dev_iter)])
          /\ Advance("remove_device")
          /\ UNCHANGED <<adapterVars, deviceVars, selfVars, addrVars, keepLocals, stackVars>>
       \/ /\ ~IsSwitch(devNames[Head(dev_iter)])
          /\ dev_iter' = Tail(dev_iter)
          /\ Advance(NextAfterDevices(Tail(dev_iter)))
          /\ UNCHANGED <<adapterVars, deviceVars, selfVars, addrVars, ctr_listener,
                         itr_listener, ctr_local, open, stackVars>>
       \/ Fail("err_bluetooth")

\* self.adapter.remove_device(device_addr).await?
PairRemoveDevice ==
    /\ pc = "remove_device"
    /\ \/ /\ present' = present \ {Head(dev_iter)}
          /\ dev_iter' = Tail(dev_iter)
          /\ Advance(NextAfterDevices(Tail(dev_iter)))
          /\ UNCHANGED <<adapterVars, devNames, selfVars, addrVars, ctr_listener,
                         itr_listener, ctr_local, open, stackVars>>
       \/ Fail("err_bluetooth")

\* ------------------------------------------------------ pair(): listeners
\* self.adapter.address().await?
PairAddress ==
    /\ pc = "address"
    /\ \/ /\ Advance("bind_ctr")
          /\ UNCHANGED <<adapterVars, deviceVars, selfVars, addrVars, keepLocals, stackVars>>
       \/ Fail("err_bluetooth")

\* SeqPacketListener::bind(.. CTR_PSM).await?
PairBindCtr ==
    /\ pc = "bind_ctr"
    /\ \/ /\ ctr_listener' = TRUE
          /\ Advance("bind_itr")
          /\ UNCHANGED <<adapterVars, deviceVars, selfVars, addrVars, itr_listener,
                         ctr_local, dev_iter, open, stackVars>>
       \/ Fail("err_io")

\* SeqPacketListener::bind(.. ITR_PSM).await?
PairBindItrNotYet ==
    /\ pc = "bind_itr"
    /\ \/ /\ Advance("set_powered")
          /\ UNCHANGED <<adapterVars, deviceVars, selfVars, addrVars, keepLocals, stackVars>>
       \/ Fail("err_io")
PairBindItr ==
    /\ pc = "bind_itr"
    /\ \/ /\ itr_listener' = TRUE
          /\ Advance("set_powered")
          /\ UNCHANGED <<adapterVars, deviceVars, selfVars, addrVars, ctr_listener,
                         ctr_local, dev_iter, open, stackVars>>
       \/ Fail("err_io")

\* --------------------------------------------- pair(): adapter and profile
\* self.adapter.set_powered(true).await?
PairSetPowered ==
    /\ pc = "set_powered"
    /\ \/ /\ powered' = TRUE
          /\ Advance("set_pairable")
          /\ UNCHANGED <<pairable, discoverable, alias, class, deviceVars, selfVars,
                         addrVars, keepLocals, stackVars>>
       \/ Fail("err_bluetooth")

\* self.adapter.set_pairable(true).await?
PairSetPairable ==
    /\ pc = "set_pairable"
    /\ \/ /\ pairable' = TRUE
          /\ Advance("set_alias")
          /\ UNCHANGED <<powered, discoverable, alias, class, deviceVars, selfVars,
                         addrVars, keepLocals, stackVars>>
       \/ Fail("err_bluetooth")

\* self.adapter.set_alias(self.protocol.controller_type().name()).await?
PairSetAliasNotYet ==
    /\ pc = "set_alias"
    /\ \/ /\ Advance("register_profile")
          /\ UNCHANGED <<adapterVars, deviceVars, selfVars, addrVars, keepLocals, stackVars>>
       \/ Fail("err_bluetooth")
PairSetAlias ==
    /\ pc = "set_alias"
    /\ \/ /\ alias' = ControllerTypeName
          /\ Advance("register_profile")
          /\ UNCHANGED <<powered, pairable, discoverable, class, deviceVars, selfVars,
                         addrVars, keepLocals, stackVars>>
       \/ Fail("err_bluetooth")

\* The profiles registered once `self.handle = Some(new)` has run: the assignment
\* drops the handle held before, which unregisters its profile.
RegisteredAfterAssignKeepsOld(old, new) == registered \cup {new}
RegisteredAfterAssign(old, new) == (registered \cup {new}) \ {old}

\* self.handle = Some(self.session.register_profile(..).await?)
PairRegisterProfile ==
    /\ pc = "register_profile"
    /\ \/ /\ nextProfile' = nextProfile + 1
          /\ handle' = nextProfile + 1
          /\ registered' = RegisteredAfterAssign(handle, nextProfile + 1)
          /\ released' = [p \in ProfileIds |->
                            IF p = handle THEN released[p] + 1 ELSE released[p]]
          /\ Advance("set_discoverable")
          /\ UNCHANGED <<adapterVars, deviceVars, ctr_seq_packet, itr_seq_packet,
                         addrVars, keepLocals, shutdowns, nextSock>>
       \/ Fail("err_bluetooth")

\* self.adapter.set_discoverable(true).await?
PairSetDiscoverable ==
    /\ pc = "set_discoverable"
    /\ \/ /\ discoverable' = TRUE
          /\ Advance("set_class")
          /\ UNCHANGED <<powered, pairable, alias, class, deviceVars, selfVars,
                         addrVars, keepLocals, stackVars>>
       \/ Fail("err_bluetooth")

\* Adapter::set_class: run hciconfig (only a failure to launch it is an error; the
\* command may leave the class as it was), then re-read the class and compare.
\* c is the class the adapter reports at the re-read.
PairSetClass ==
    /\ pc = "set_class"
    /\ \/ \E c \in Classes :
            /\ class' = c
            /\ class_read' = c
            /\ UNCHANGED <<powered, pairable, discoverable, alias, deviceVars,
                           selfVars, ctr_addr, itr_addr, stackVars>>
            /\ \/ /\ c = GAMEPAD_JOYSITCK_COD
                  /\ Advance("class")
                  /\ UNCHANGED keepLocals
               \/ /\ c # GAMEPAD_JOYSITCK_COD
                  /\ Return("err_bluetooth")
       \/ Fail("err_bluetooth")

\* if self.adapter.class().await? != GAMEPAD_JOYSITCK_COD { return Err(Other) }
\* c is the class the adapter reports now.
PairCheckClassUnchecked ==
    /\ pc = "class"
    /\ \/ \E c \in Classes :
            /\ class' = c
            /\ class_read' = c
            /\ UNCHANGED <<powered, pairable, discoverable, alias, deviceVars,
                           selfVars, ctr_addr, itr_addr, stackVars>>
            /\ Advance("accept_ctr")
            /\ UNCHANGED keepLocals
       \/ Fail("err_bluetooth")
PairCheckClass ==
    /\ pc = "class"
    /\ \/ \E c \in Classes :
            /\ class' = c
            /\ class_read' = c
            /\ UNCHANGED <<powered, pairable, discoverable, alias, deviceVars,
                           selfVars, ctr_addr, itr_addr, stackVars>>
            /\ \/ /\ c = GAMEPAD_JOYSITCK_COD
                  /\ Advance("accept_ctr")
                  /\ UNCHANGED keepLocals
               \/ /\ c # GAMEPAD_JOYSITCK_COD
                  /\ Return("err_other")
       \/ Fail("err_bluetooth")

\* ------------------------------------------------------- pair(): accepts
\* ctr_listener.accept().await?
PairAcceptCtrSkipped ==
    /\ pc = "accept_ctr"
    /\ \/ /\ Advance("accept_itr")
          /\ UNCHANGED <<adapterVars, deviceVars, selfVars, addrVars, keepLocals, stackVars>>
       \/ Fail("err_io")
PairAcceptCtr ==
    /\ pc = "accept_ctr"
    /\ \/ \E a \in RemoteAddrs :
            /\ nextSock' = nextSock + 1
            /\ ctr_local' = nextSock + 1
            /\ open' = open \cup {nextSock + 1}
            /\ ctr_addr' = a
            /\ Advance("accept_itr")
            /\ UNCHANGED <<adapterVars, deviceVars, selfVars, itr_addr, class_read, ctr_listener,
                           itr_listener, dev_iter, registered, released, shutdowns,
                           nextProfile>>
       \/ Fail("err_io")

\* assert!(ctr_addr.addr == itr_addr.addr): TRUE when the assertion passes
AssertSameAddrCompiledOut(c, i) == TRUE
AssertSameAddr(c, i) == c = i

\* itr_listener.accept().await?, the assertion, and the two stores into the
\* Controller (no await lies between them). A failed assertion panics: pair() is
\* unwound and its locals, the two accepted sockets among them, are dropped.
PairAcceptItr ==
    /\ pc = "accept_itr"
    /\ \/ \E a \in RemoteAddrs :
            /\ itr_addr' = a
            /\ nextSock' = nextSock + 1
            /\ UNCHANGED <<adapterVars, deviceVars, handle, ctr_addr, class_read, registered,
                           released, shutdowns, nextProfile>>
            /\ \/ /\ AssertSameAddr(ctr_addr, a)
                  /\ ctr_seq_packet' = ctr_local
                  /\ itr_seq_packet' = nextSock + 1
                  /\ ctr_local' = 0
                  /\ open' = (open \cup {nextSock + 1}) \ {ctr_seq_packet, itr_seq_packet}
                  /\ Advance("unset_discoverable")
                  /\ UNCHANGED <<ctr_listener, itr_listener, dev_iter>>
               \/ /\ ~AssertSameAddr(ctr_addr, a)
                  /\ Return("panic")
                  /\ UNCHANGED <<ctr_seq_packet, itr_seq_packet>>
       \/ Fail("err_io")

\* The values pair() writes once both connections are stored.
PairedDiscoverableLeftOn == TRUE
PairedDiscoverable == FALSE
PairedPairableLeftOn == TRUE
PairedPairable == FALSE

\* self.adapter.set_discoverable(false).await?
PairUnsetDiscoverable ==
    /\ pc = "unset_discoverable"
    /\ \/ /\ discoverable' = PairedDiscoverable
          /\ Advance("unset_pairable")
          /\ UNCHANGED <<powered, pairable, alias, class, deviceVars, selfVars,
                         addrVars, keepLocals, stackVars>>
       \/ Fail("err_bluetooth")

\* self.adapter.set_pairable(false).await? and Ok(itr_addr.addr)
PairUnsetPairable ==
    /\ pc = "unset_pairable"
    /\ \/ /\ pairable' = PairedPairable
          /\ Return("ok")
          /\ UNCHANGED <<powered, discoverable, alias, class, deviceVars, selfVars,
                         addrVars, stackVars>>
       \/ Fail("err_bluetooth")

\* ------------------------------------------------------------ close, drop
\* Option::take: the slot is left None (0) and the value taken out is dropped.
TakeLeavesValue(v) == v
Take(v) == 0

CloseEventsControlFirst(itr_err, ctr_err) ==
    (IF ctr_seq_packet = 0 THEN <<>>
     ELSE IF ctr_err THEN <<"ctr_shutdown_err">> ELSE <<"ctr_shutdown">>)
    \o (IF itr_seq_packet = 0 THEN <<>>
        ELSE IF itr_err THEN <<"itr_shutdown_err">> ELSE <<"itr_shutdown">>)
    \o (IF handle = 0 THEN <<>> ELSE <<"unregister">>)
CloseEvents(itr_err, ctr_err) ==
    (IF itr_seq_packet = 0 THEN <<>>
     ELSE IF itr_err THEN <<"itr_shutdown_err">> ELSE <<"itr_shutdown">>)
    \o (IF ctr_seq_packet = 0 THEN <<>>
        ELSE IF ctr_err THEN <<"ctr_shutdown_err">> ELSE <<"ctr_shutdown">>)
    \o (IF handle = 0 THEN <<>> ELSE <<"unregister">>)

CloseEffectStopsOnError(itr_err, ctr_err) ==
    LET held == {itr_seq_packet, ctr_seq_packet} \ {0}
        stop_itr == itr_seq_packet # 0 /\ itr_err
        stop_ctr == ~stop_itr /\ ctr_seq_packet # 0 /\ ctr_err
        tried == IF stop_itr THEN {itr_seq_packet} ELSE held
        dropped == IF stop_itr THEN {}
                   ELSE IF stop_ctr THEN {itr_seq_packet} \ {0} ELSE held
        unregistered == handle # 0 /\ ~stop_itr /\ ~stop_ctr
    IN  /\ shutdowns' = [s \in SocketIds |->
                            IF s \in tried THEN shutdowns[s] + 1 ELSE shutdowns[s]]
        /\ itr_seq_packet' = IF stop_itr THEN itr_seq_packet ELSE 0
        /\ ctr_seq_packet' = IF stop_itr \/ stop_ctr THEN ctr_seq_packet ELSE 0
        /\ open' = open \ dropped
        /\ handle' = IF unregistered THEN 0 ELSE handle
        /\ registered' = IF unregistered THEN registered \ {handle} ELSE registered
        /\ released' = [p \in ProfileIds |->
                          IF unregistered /\ p = handle THEN released[p] + 1
                          ELSE released[p]]
        /\ closeLog' = IF stop_itr THEN <<"itr_shutdown_err">>
                       ELSE IF stop_ctr
                            THEN (IF itr_seq_packet = 0 THEN <<>> ELSE <<"itr_shutdown">>)
                                 \o <<"ctr_shutdown_err">>
                            ELSE CloseEvents(itr_err, ctr_err)

\* Controller::close. itr_err, ctr_err: whether the shutdown of that socket
\* returns an error (it is only logged).
CloseEffect(itr_err, ctr_err) ==
    LET held == {itr_seq_packet, ctr_seq_packet} \ {0}
        dropped == {s \in held : Take(s) = 0}
        unregistered == handle # 0 /\ Take(handle) = 0
    IN  /\ shutdowns' = [s \in SocketIds |->
                            IF s \in held THEN shutdowns[s] + 1 ELSE shutdowns[s]]
        /\ itr_seq_packet' = Take(itr_seq_packet)
        /\ ctr_seq_packet' = Take(ctr_seq_packet)
        /\ open' = open \ dropped
        /\ handle' = Take(handle)
        /\ registered' = IF unregistered THEN registered \ {handle} ELSE registered
        /\ released' = [p \in ProfileIds |->
                          IF unregistered /\ p = handle THEN released[p] + 1
                          ELSE released[p]]
        /\ closeLog' = CloseEvents(itr_err, ctr_err)

\* close() called on a live Controller with no pair() pending.
Close ==
    /\ life = "alive"
    /\ pc = "idle"
    /\ \E itr_err, ctr_err \in BOOLEAN : CloseEffect(itr_err, ctr_err)
    /\ lastOp' = "close"
    /\ UNCHANGED <<life, pc, result, pairs, adapterVars, deviceVars, ctr_listener,
                   itr_listener, ctr_local, dev_iter, addrVars, nextProfile, nextSock,
                   idleVars>>

\* Drop for Controller: close(), after which the value is gone.
Drop ==
    /\ life = "alive"
    /\ pc = "idle"
    /\ \E itr_err, ctr_err \in BOOLEAN : CloseEffect(itr_err, ctr_err)
    /\ life' = "dropped"
    /\ lastOp' = "drop"
    /\ UNCHANGED <<pc, result, pairs, adapterVars, deviceVars, ctr_listener,
                   itr_listener, ctr_local, dev_iter, addrVars, nextProfile, nextSock,
                   idleVars>>

\* ----------------------------------------------------------- specification
Next ==
    \/ PairStart
    \/ PairUuids
    \/ PairDeviceAddresses
    \/ PairDeviceName
    \/ PairRemoveDevice
    \/ PairAddress
    \/ PairBindCtr
    \/ PairBindItr
    \/ PairSetPowered
    \/ PairSetPairable
    \/ PairSetAlias
    \/ PairRegisterProfile
    \/ PairSetDiscoverable
    \/ PairSetClass
    \/ PairCheckClass
    \/ PairAcceptCtr
    \/ PairAcceptItr
    \/ PairUnsetDiscoverable
    \/ PairUnsetPairable
    \/ Cancel
    \/ Close
    \/ Drop

Spec == Init /\ [][Next]_vars

\* ================================================================ the codec
\* impl TryFrom<u8> for Type
TypeTryFromRumbleSwapped(value) ==
    CASE value = TypeSubcommand -> [ok |-> TRUE, t |-> "Subcommand"]
      [] value = TypeRumble -> [ok |-> TRUE, t |-> "RequestIrNfcMcu"]
      [] value = TypeRequestIrNfcMcu -> [ok |-> TRUE, t |-> "Rumble"]
      [] OTHER -> [ok |-> FALSE, t |-> ""]
TypeTryFrom(value) ==
    CASE value = TypeSubcommand -> [ok |-> TRUE, t |-> "Subcommand"]
      [] value = TypeRumble -> [ok |-> TRUE, t |-> "Rumble"]
      [] value = TypeRequestIrNfcMcu -> [ok |-> TRUE, t |-> "RequestIrNfcMcu"]
      [] OTHER -> [ok |-> FALSE, t |-> ""]

\* value.len() < 12
TooShortOffByOne(value) == Len(value) < MinOutputLen - 1
TooShort(value) == Len(value) < MinOutputLen

\* value[0] != Direction::Output as u8
WrongDirectionInputTag(b) == b # DirectionInput
WrongDirectionEitherTag(b) == b \notin {DirectionInput, DirectionOutput}
WrongDirection(b) == b # DirectionOutput

ProtocolError(message) == [kind |-> "err", msg |-> message, t |-> "", timer |-> 0]

\* impl TryFrom<&[u8]> for Output. After the timer is read the function runs into
\* todo!(), which panics: no Output value is ever built. The panic record keeps the
\* locals t and timer as they were when it was raised.
OutputTryFrom(value) ==
    IF TooShort(value) THEN ProtocolError("invalid output length")
    ELSE IF WrongDirection(value[1]) THEN ProtocolError("invalid output direction")
    ELSE IF ~TypeTryFrom(value[2]).ok THEN ProtocolError("invalid output type")
    ELSE [kind |-> "panic", msg |-> "not yet implemented",
          t |-> TypeTryFrom(value[2]).t, timer |-> value[3]]

\* ------------------------------------------------------------------ frames
Bytes4(v) == [i \in 1..4 |-> (v \div (256 ^ (i - 1))) % 256]

\* An Output frame of type Subcommand, laid out as the wire format gives it:
\* direction, type, timer, left rumble, right rumble, subcommand id, payload.
EncodeSubcommand(b) ==
    <<DirectionOutput, TypeSubcommand, b.timer>> \o Bytes4(b.left_rumble)
        \o Bytes4(b.right_rumble) \o <<b.subcommand>> \o b.data

\* Frames of every length up to the header and MaxPayload more bytes: first byte
\* d, second byte t, third byte tm, every later byte fill.
RawFrame(n, d, t, tm, fill) ==
    [i \in 1..n |-> IF i = 1 THEN d ELSE IF i = 2 THEN t ELSE IF i = 3 THEN tm ELSE fill]

DirectionBytes == {0, DirectionInput, DirectionOutput}
TypeBytes == {0, TypeSubcommand, TypeRumble, TypeRequestIrNfcMcu, 255}
TimerBytes == {0, 255}
RumbleValues == {0, 16909060}
Payloads == UNION {[1..n -> {0, 255}] : n \in 0..MaxPayload}

RawFrames ==
    {RawFrame(n, d, t, tm, f) : n \in 0..(MinOutputLen + MaxPayload),
        d \in DirectionBytes, t \in TypeBytes, tm \in TimerBytes, f \in {0, 255}}

BuiltValues ==
    [some : {TRUE}, timer : TimerBytes, left_rumble : RumbleValues,
     right_rumble : RumbleValues, subcommand : {0, 255}, data : Payloads]

CodecInit ==
    /\ PairingInit
    /\ devNames = <<>>
    /\ present = {}
    /\ SessionsIdle
    /\ decoded = NotDecoded
    /\ \/ /\ built = NotBuilt
          /\ frame \in RawFrames
       \/ /\ built \in BuiltValues
          /\ frame = EncodeSubcommand(built)

\* Output::try_from(&frame[..])
DecodeOutput ==
    /\ decoded.kind = "none"
    /\ decoded' = OutputTryFrom(frame)
    /\ UNCHANGED <<life, pc, result, pairs, lastOp, adapterVars, deviceVars, selfVars,
                   keepLocals, addrVars, stackVars, closeLog, frame, built, sessVars>>

CodecNext == DecodeOutput

SpecCodec == CodecInit /\ [][CodecNext]_vars

\* ============================================================ two Controllers
\* Two Controllers created by Controller::new, each with an adapter name of the
\* caller's choice, run pair() as independent tasks. What a session keeps for
\* itself (profile handle, sockets) is followed in Spec; here the radios' settings
\* are, which the sessions reach through their Adapter values.
oneVars ==
    <<life, pc, result, pairs, lastOp, adapterVars, deviceVars, selfVars, keepLocals,
      addrVars, stackVars, closeLog, codecVars>>

SessPending ==
    {"bind_ctr", "bind_itr", "set_powered", "set_pairable", "set_alias",
     "register_profile", "set_discoverable", "set_class", "class", "accept_ctr",
     "accept_itr", "unset_discoverable", "unset_pairable"}

SessLive(s) == sess_pc[s] \notin {"new", "dropped"}

\* The listeners are locals of pair(): bound from their bind to pair()'s return.
SessHoldsCtr(s) == sess_pc[s] \in SessPending \ {"bind_ctr"}
SessHoldsItr(s) == sess_pc[s] \in SessPending \ {"bind_ctr", "bind_itr"}

SessStep(s, next) ==
    /\ sess_pc' = [sess_pc EXCEPT ![s] = next]
    /\ UNCHANGED <<sess_adapter, oneVars>>

\* A setter of the session's Adapter: the named radio's setting is written.
SessWrite(s, field, v) ==
    LET a == sess_adapter[s]
        r == radio[a]
    IN  radio' = [radio EXCEPT ![a] = [r EXCEPT ![field] = v,
                                                !["writers"] = r.writers \cup {s}]]

\* Controller::new(adapter, controller_type): any adapter name the session knows;
\* nothing records or asks whether another Controller uses that adapter.
SessNew(s) ==
    /\ sess_pc[s] = "new"
    /\ \E a \in AdapterNames : sess_adapter' = [sess_adapter EXCEPT ![s] = a]
    /\ sess_pc' = [sess_pc EXCEPT ![s] = "idle"]
    /\ UNCHANGED <<radio, oneVars>>

\* pair() is called and runs up to its first bind; the steps before it (uuids, the
\* removal of known Switches, address) write none of the radio's settings.
SessPairStart(s) ==
    /\ sess_pc[s] = "idle"
    /\ SessStep(s, "bind_ctr")
    /\ UNCHANGED radio

\* SeqPacketListener::bind(.. CTR_PSM): refused while another listener is bound to
\* the same address and PSM.
SessBindCtr(s) ==
    /\ sess_pc[s] = "bind_ctr"
    /\ IF \E t \in Sessions \ {s} : sess_adapter[t] = sess_adapter[s] /\ SessHoldsCtr(t)
       THEN SessStep(s, "idle")
       ELSE SessStep(s, "bind_itr")
    /\ UNCHANGED radio

\* SeqPacketListener::bind(.. ITR_PSM)
SessBindItr(s) ==
    /\ sess_pc[s] = "bind_itr"
    /\ IF \E t \in Sessions \ {s} : sess_adapter[t] = sess_adapter[s] /\ SessHoldsItr(t)
       THEN SessStep(s, "idle")
       ELSE SessStep(s, "set_powered")
    /\ UNCHANGED radio

SessSetPowered(s) ==
    /\ sess_pc[s] = "set_powered"
    /\ SessWrite(s, "powered", TRUE)
    /\ SessStep(s, "set_pairable")

SessSetPairable(s) ==
    /\ sess_pc[s] = "set_pairable"
    /\ SessWrite(s, "pairable", TRUE)
    /\ SessStep(s, "set_alias")

SessSetAlias(s) ==
    /\ sess_pc[s] = "set_alias"
    /\ SessWrite(s, "alias", ControllerTypeName)
    /\ SessStep(s, "register_profile")

\* session.register_profile(..): the profile belongs to the session, not the radio.
SessRegisterProfile(s) ==
    /\ sess_pc[s] = "register_profile"
    /\ SessStep(s, "set_discoverable")
    /\ UNCHANGED radio

SessSetDiscoverable(s) ==
    /\ sess_pc[s] = "set_discoverable"
    /\ SessWrite(s, "discoverable", TRUE)
    /\ SessStep(s, "set_class")

SessSetClass(s) ==
    /\ sess_pc[s] = "set_class"
    /\ SessWrite(s, "class", GAMEPAD_JOYSITCK_COD)
    /\ SessStep(s, "class")

\* self.adapter.class() is read back and compared.
SessCheckClass(s) ==
    /\ sess_pc[s] = "class"
    /\ IF radio[sess_adapter[s]].class = GAMEPAD_JOYSITCK_COD
       THEN SessStep(s, "accept_ctr")
       ELSE SessStep(s, "idle")
    /\ UNCHANGED radio

SessAcceptCtr(s) ==
    /\ sess_pc[s] = "accept_ctr"
    /\ SessStep(s, "accept_itr")
    /\ UNCHANGED radio

SessAcceptItr(s) ==
    /\ sess_pc[s] = "accept_itr"
    /\ SessStep(s, "unset_discoverable")
    /\ UNCHANGED radio

SessUnsetDiscoverable(s) ==
    /\ sess_pc[s] = "unset_discoverable"
    /\ SessWrite(s, "discoverable", FALSE)
    /\ SessStep(s, "unset_pairable")

\* The last setter; pair() returns Ok and the Controller stays alive, connected.
SessUnsetPairable(s) ==
    /\ sess_pc[s] = "unset_pairable"
    /\ SessWrite(s, "pairable", FALSE)
    /\ SessStep(s, "idle")

\* Any call of pair() fails and `?` returns, or the pair() future is dropped at an
\* await: the radio's settings stay as pair() left them.
SessReturnEarly(s) ==
    /\ sess_pc[s] \in SessPending
    /\ SessStep(s, "idle")
    /\ UNCHANGED radio

\* The Controller is dropped; close() writes none of the radio's settings.
SessDrop(s) ==
    /\ sess_pc[s] = "idle"
    /\ SessStep(s, "dropped")
    /\ UNCHANGED radio

SessInit ==
    /\ PairingInit
    /\ devNames = <<>>
    /\ present = {}
    /\ CodecIdle
    /\ SessionsIdle

SessNext ==
    \/ \E s \in Sessions : SessNew(s)
    \/ \E s \in Sessions : SessPairStart(s)
    \/ \E s \in Sessions : SessBindCtr(s)
    \/ \E s \in Sessions : SessBindItr(s)
    \/ \E s \in Sessions : SessSetPowered(s)
    \/ \E s \in Sessions : SessSetPairable(s)
    \/ \E s \in Sessions : SessSetAlias(s)
    \/ \E s \in Sessions : SessRegisterProfile(s)
    \/ \E s \in Sessions : SessSetDiscoverable(s)
    \/ \E s \in Sessions : SessSetClass(s)
    \/ \E s \in Sessions : SessCheckClass(s)
    \/ \E s \in Sessions : SessAcceptCtr(s)
    \/ \E s \in Sessions : SessAcceptItr(s)
    \/ \E s \in Sessions : SessUnsetDiscoverable(s)
    \/ \E s \in Sessions : SessUnsetPairable(s)
    \/ \E s \in Sessions : SessReturnEarly(s)
    \/ \E s \in Sessions : SessDrop(s)

SpecSessions == SessInit /\ [][SessNext]_vars

\* =================================================================== claims
AddressMismatch == ctr_addr # 0 /\ itr_addr # 0 /\ ctr_addr # itr_addr

\* C1: when the Interrupt accept yields a remote address other than the Control
\* accept's, pair() ends without success, and neither of the two accepted sockets
\* is open or stored in the Controller afterwards.
C1_MismatchClosesBoth ==
    /\ [](AddressMismatch => pc = "idle" /\ result \notin {"ok", "none"})
    /\ [][(pc = "accept_itr" /\ itr_addr' # 0 /\ itr_addr' # ctr_addr) =>
            /\ result' \notin {"ok", "none"}
            /\ {ctr_local, nextSock'} \cap open' = {}
            /\ {ctr_local, nextSock'} \cap {ctr_seq_packet', itr_seq_packet'} = {}
            /\ ctr_local' = 0]_vars

C1_Witness ==
    /\ AddressMismatch
    /\ pc = "idle"
    /\ nextSock = 2
    /\ open = {}

\* C2: every failure of pair() is a returned error value (Bluetooth, Protocol, Io
\* or Other), never a panic, and an address mismatch is returned as a protocol error.
C2_FailuresAreReturnedErrors ==
    (pc = "idle" /\ result \notin {"none", "ok", "cancelled"}) =>
        /\ result \in {"err_bluetooth", "err_protocol", "err_io", "err_other"}
        /\ (AddressMismatch => result = "err_protocol")

\* C3: whenever pair() has returned success the adapter is neither discoverable
\* nor pairable, and each of the two flags was cleared only after both connections
\* had been accepted and stored.
C3_FlagsClearedOnSuccess ==
    /\ []((pc = "idle" /\ result = "ok") => (~discoverable /\ ~pairable))
    /\ [][((discoverable /\ ~discoverable') \/ (pairable /\ ~pairable')) =>
            /\ ctr_addr # 0 /\ itr_addr # 0
            /\ ctr_seq_packet \in open /\ itr_seq_packet \in open]_vars
    /\ [][(result # "ok" /\ result' = "ok") => (~discoverable /\ pairable /\ ~pairable')]_vars

C3_Witness ==
    /\ pc = "idle" /\ result = "ok" /\ lastOp = "pair"
    /\ ~discoverable /\ ~pairable
    /\ ctr_seq_packet \in open /\ itr_seq_packet \in open

\* C4 as stated: once pair() has returned success, the profile this attempt
\* registered is no longer registered and its handle has been released.
C4_ProfileReleasedOnSuccess ==
    (pc = "idle" /\ result = "ok") => (handle = 0 /\ nextProfile \notin registered)

\* C4 amended: when pair() returns success the profile this attempt registered is
\* still registered and its handle is held by the Controller, never released so
\* far; it stops being registered once close() or drop has run.
C4_ProfileHeldUntilClose ==
    (pc = "idle" /\ result = "ok") =>
        IF lastOp = "pair"
        THEN handle = nextProfile /\ nextProfile \in registered /\ released[nextProfile] = 0
        ELSE handle = 0 /\ registered = {} /\ released[nextProfile] = 1

C4_Witness ==
    /\ pc = "idle" /\ result = "ok" /\ lastOp = "close"
    /\ handle = 0 /\ registered = {} /\ nextProfile = 1

\* C5: close() is idempotent. A close() that follows a close() changes nothing and
\* shuts no socket down; no socket is ever shut down twice and no profile handle is
\* ever released twice, the close() run by drop included.
C5_CloseIdempotent ==
    /\ [](\A s \in SocketIds : shutdowns[s] <= 1)
    /\ [](\A p \in ProfileIds : released[p] <= 1)
    /\ [][(lastOp = "close" /\ lastOp' \in {"close", "drop"}) =>
            /\ UNCHANGED <<selfVars, open, registered, released, shutdowns>>
            /\ closeLog' = <<>>]_vars

C5_Witness ==
    /\ lastOp = "drop" /\ closeLog = <<>>
    /\ pairs = 1 /\ result = "ok"
    /\ shutdowns[1] = 1 /\ shutdowns[2] = 1 /\ released[1] = 1

NoSwitchKnown == \A i \in present : devNames[i] # "Nintendo Switch"

\* C6: every known device named "Nintendo Switch" is removed before pair() binds a
\* listener or changes an adapter setting; a device with another name or with no
\* name is never removed.
C6_StaleSwitchesRemovedFirst ==
    /\ []((ctr_listener \/ itr_listener) => NoSwitchKnown)
    /\ [](\A i \in (DOMAIN devNames) \ present : devNames[i] = "Nintendo Switch")
    /\ [][(\/ ctr_listener' # ctr_listener /\ ctr_listener'
           \/ itr_listener' # itr_listener /\ itr_listener'
           \/ <<powered, pairable, discoverable, alias, class>>'
                # <<powered, pairable, discoverable, alias, class>>) => NoSwitchKnown]_vars

C6_Witness ==
    /\ ctr_listener /\ itr_listener /\ powered
    /\ Len(devNames) = 2
    /\ "Nintendo Switch" \in {devNames[i] : i \in DOMAIN devNames}
    /\ present # {}
    /\ NoSwitchKnown

\* C7: a frame shorter than 12 bytes is refused with the length error, whatever
\* its bytes.
C7_ShortFrameLengthError ==
    (decoded.kind # "none" /\ Len(frame) < 12) =>
        (decoded.kind = "err" /\ decoded.msg = "invalid output length")

C7_Witness ==
    /\ Len(frame) = 11
    /\ frame[1] = 161
    /\ frame[2] = 255
    /\ decoded.msg = "invalid output length"

\* C8 as stated: a frame of 12 or more bytes is refused with the direction error
\* exactly when its first byte is not 0xA1.
C8_DirectionIsA1 ==
    (decoded.kind # "none" /\ Len(frame) >= 12) =>
        ((frame[1] # 161) <=> (decoded.kind = "err" /\ decoded.msg = "invalid output direction"))

\* C8 amended: a frame of 12 or more bytes is refused with the direction error
\* exactly when its first byte is not 0xA2, the Output tag; 0xA1 is the Input tag.
C8_DirectionIsA2 ==
    (decoded.kind # "none" /\ Len(frame) >= 12) =>
        ((frame[1] # 162) <=> (decoded.kind = "err" /\ decoded.msg = "invalid output direction"))

C8_Witness ==
    /\ Len(frame) >= 12
    /\ frame[1] = 161
    /\ frame[2] = 1
    /\ decoded.msg = "invalid output direction"

\* C9: a frame of 12 or more bytes that passes the direction check is refused with
\* the type error exactly when its second byte is none of 0x01, 0x10, 0x11, and
\* these three are read as Subcommand, Rumble and RequestIrNfcMcu.
C9_TypeByte ==
    (decoded.kind # "none" /\ Len(frame) >= 12 /\ frame[1] = 162) =>
        /\ (frame[2] \notin {1, 16, 17}) <=>
              (decoded.kind = "err" /\ decoded.msg = "invalid output type")
        /\ frame[2] = 1 => decoded.t = "Subcommand"
        /\ frame[2] = 16 => decoded.t = "Rumble"
        /\ frame[2] = 17 => decoded.t = "RequestIrNfcMcu"

C9_Witness ==
    /\ Len(frame) >= 12
    /\ frame[1] = 162
    /\ frame[2] = 255
    /\ decoded.msg = "invalid output type"

\* C10: decoding the Subcommand frame built from timer T, rumble R, subcommand id S
\* and payload P completes and yields exactly T, R, S and P.
C10_RoundTrip ==
    (built.some /\ decoded.kind # "none") =>
        decoded = [kind |-> "ok", msg |-> "", t |-> "Subcommand", timer |-> built.timer,
                   left_rumble |-> built.left_rumble, right_rumble |-> built.right_rumble,
                   subcommand |-> built.subcommand, data |-> built.data]

PairErrors == {"err_bluetooth", "err_io", "err_other"}

\* C11: a failed step of pair() makes pair() return the error at once: the call is
\* over, no later step has acted (adapter settings, devices, Controller fields and
\* the stack's resources are as the failed step found them), the listeners are
\* gone, and no new attempt was started in its place.
C11_FailureReturnsAtOnce ==
    /\ [](result \in PairErrors => pc = "idle")
    /\ [][(result = "none" /\ result' \in PairErrors) =>
            /\ pc' = "idle"
            /\ pairs' = pairs
            /\ ~ctr_listener' /\ ~itr_listener'
            /\ UNCHANGED <<powered, pairable, discoverable, alias, present, selfVars,
                           registered, nextProfile, nextSock>>]_vars

C11_Witness ==
    /\ pc = "idle" /\ result = "err_bluetooth" /\ pairs = 1
    /\ powered /\ ~pairable /\ ~discoverable
    /\ handle = 0 /\ nextSock = 0

\* C12: whenever pair() has returned an error, no listener is bound, no accepted
\* socket is open and no service profile is registered.
C12_ErrorReleasesEverything ==
    (pc = "idle" /\ result \in PairErrors) =>
        (~ctr_listener /\ ~itr_listener /\ open = {} /\ registered = {})

\* C13: once the pending pair() call was cancelled, or the Controller dropped, no
\* listener is bound, no accepted socket is open and the profile handle is released.
C13_CancelReleasesEverything ==
    ((pc = "idle" /\ result = "cancelled") \/ life = "dropped") =>
        (~ctr_listener /\ ~itr_listener /\ open = {} /\ registered = {} /\ handle = 0)

ClassReadDiffers == class_read' # class_read /\ class_read' \notin {0, 9480}

\* C14 as stated: pair() reaches the accept step only on a class re-read equal to
\* 0x002508, and a re-read that differs ends pair() with the Other error, no
\* connection accepted.
C14_MismatchIsOther ==
    /\ [][(pc' = "accept_ctr" /\ pc # "accept_ctr") => class_read' = 9480]_vars
    /\ [][ClassReadDiffers => (result' = "err_other" /\ nextSock' = nextSock)]_vars

\* C14 amended: pair() reaches the accept step only on a class re-read equal to
\* 0x002508. A differing re-read ends pair() with no connection accepted: with the
\* Other error when it is pair()'s own re-read, with the Bluetooth error when it is
\* the re-read made inside set_class.
C14_MismatchEndsPair ==
    /\ [][(pc' = "accept_ctr" /\ pc # "accept_ctr") => (pc = "class" /\ class_read' = 9480)]_vars
    /\ [][ClassReadDiffers =>
            /\ result' = (IF pc = "class" THEN "err_other" ELSE "err_bluetooth")
            /\ pc \in {"class", "set_class"}
            /\ pc' = "idle"
            /\ nextSock' = nextSock /\ open' = open]_vars
    /\ [](pc \in {"accept_ctr", "accept_itr"} => class_read = 9480)

C14_Witness ==
    /\ pc = "idle" /\ result = "err_other"
    /\ class_read \notin {0, 9480}
    /\ nextSock = 0 /\ open = {}

\* C15: pair() makes the adapter discoverable only while both of its listeners are
\* bound, Control on PSM 17 and Interrupt on PSM 19.
C15_ListenersBeforeDiscoverable ==
    [][((~discoverable /\ discoverable') \/ (pc = "set_discoverable" /\ pc' = "set_class")) =>
            /\ pc = "set_discoverable"
            /\ discoverable'
            /\ BoundPsms = {17, 19}
            /\ BoundPsms' = {17, 19}]_vars

C15_Witness ==
    /\ pc = "set_class"
    /\ discoverable
    /\ BoundPsms = {17, 19}

HandleOrder ==
    /\ [][(handle' # handle /\ handle' # 0) =>
            /\ pc = "register_profile"
            /\ powered /\ pairable /\ alias = ControllerTypeName
            /\ handle' \in registered']_vars
    /\ [][(pc = "set_discoverable" /\ pc' = "set_class") =>
            (handle # 0 /\ handle = nextProfile /\ handle \in registered)]_vars

C17_ControlThenInterrupt ==
    /\ [](pc = "accept_itr" => (ctr_addr # 0 /\ ctr_local \in open))
    /\ [][(itr_addr' # 0 /\ itr_addr = 0) => (pc = "accept_itr" /\ ctr_addr # 0)]_vars
    /\ [][(ctr_addr' # 0 /\ ctr_addr = 0) =>
            (pc = "accept_ctr" /\ itr_addr = 0 /\ itr_addr' = 0)]_vars
    /\ []((pc = "idle" /\ result = "ok") => (ctr_addr # 0 /\ itr_addr # 0))

C17_Witness ==
    /\ pc = "accept_itr"
    /\ ctr_addr = 2 /\ itr_addr = 0
    /\ ctr_local \in open

\* C18: close() always completes its teardown: whatever shutdown reports, both
\* held sockets are shut down once and closed, the held profile is unregistered,
\* and afterwards both socket slots and the handle are empty.
C18_CloseCompletes ==
    [][lastOp' \in {"close", "drop"} =>
            /\ handle' = 0 /\ ctr_seq_packet' = 0 /\ itr_seq_packet' = 0
            /\ \A s \in {itr_seq_packet, ctr_seq_packet} \ {0} :
                    shutdowns'[s] = shutdowns[s] + 1 /\ s \notin open'
            /\ handle # 0 =>
                    (handle \notin registered' /\ released'[handle] = released[handle] + 1)]_vars

C18_Witness ==
    /\ lastOp = "close"
    /\ closeLog = <<"itr_shutdown_err", "ctr_shutdown", "unregister">>
    /\ handle = 0 /\ ctr_seq_packet = 0 /\ itr_seq_packet = 0
    /\ open = {} /\ registered = {}

\* C19: the Input and Output direction tags differ, and every frame of 12 or more
\* bytes whose first byte is the Input tag is refused by the Output decoder with
\* the direction error.
C19_InputFramesRefused ==
    /\ DirectionInput # DirectionOutput
    /\ (decoded.kind # "none" /\ Len(frame) >= MinOutputLen /\ frame[1] = DirectionInput) =>
            (decoded.kind = "err" /\ decoded.msg = "invalid output direction")

C19_Witness ==
    /\ Len(frame) = MinOutputLen + MaxPayload
    /\ frame[1] = DirectionInput
    /\ frame[2] = TypeRumble
    /\ decoded.kind = "err"
    /\ decoded.msg = "invalid output direction"

\* C20: an adapter is owned by one session: of the Controllers alive at the same
\* time, at most one has written settings (powered, pairable, alias, discoverable,
\* class) of any one adapter.
C20_AdapterOwnedByOneSession ==
    \A a \in AdapterNames : Cardinality({s \in radio[a].writers : SessLive(s)}) <= 1

\* C21: whenever pair() has returned, with success or with an error of any step,
\* the adapter is neither discoverable nor pairable.
C21_FlagsClearedOnReturn ==
    (pc = "idle" /\ result \in ({"ok"} \cup PairErrors)) => (~discoverable /\ ~pairable)

ControlSocketsOpen == ({ctr_local, ctr_seq_packet} \ {0}) \cap open
InterruptSocketsOpen == open \ {ctr_local, ctr_seq_packet}

\* C22: over any sequence of pair() calls at most one profile of the Controller is
\* registered and at most one Control and one Interrupt socket are open at any
\* time, and a new profile is registered only when none of an earlier attempt is
\* still held.
C22_OneOfEachAtATime ==
    /\ [](Cardinality(registered) <= 1)
    /\ [](Cardinality(ControlSocketsOpen) <= 1)
    /\ [](Cardinality(InterruptSocketsOpen) <= 1)
    /\ [][(handle' # handle /\ handle' # 0) => (handle = 0 /\ registered = {})]_vars

\* C23: between the operations of a Controller the stored Control socket and the
\* stored Interrupt socket are both present or both absent, and they are present
\* only while a profile handle is held.
C23_SocketsPairedUnderHandle ==
    pc = "idle" =>
        /\ (ctr_seq_packet = 0) <=> (itr_seq_packet = 0)
        /\ ctr_seq_packet # 0 => (handle # 0 /\ ctr_seq_packet # itr_seq_packet)

C23_Witness ==
    /\ pc = "idle" /\ result = "err_bluetooth" /\ lastOp = "pair"
    /\ ctr_seq_packet # 0 /\ itr_seq_packet # 0 /\ handle # 0
    /\ discoverable

CloseRank(e) ==
    IF e \in {"itr_shutdown", "itr_shutdown_err"} THEN 1
    ELSE IF e \in {"ctr_shutdown", "ctr_shutdown_err"} THEN 2
    ELSE 3

\* C24: close() tears down in a fixed order: the Interrupt socket is shut down
\* first, then the Control socket, and the profile is unregistered last.
C24_TeardownOrder ==
    \A i, j \in DOMAIN closeLog : i < j => CloseRank(closeLog[i]) < CloseRank(closeLog[j])

C24_Witness ==
    /\ lastOp = "close"
    /\ closeLog = <<"itr_shutdown", "ctr_shutdown_err", "unregister">>

====
